---- MODULE Spec2Model ----
(***************************************************************************)
(* Model of TxtClassify.py: a synthetic word generator (build_simple,      *)
(* build_word, build_crc_label, build_words), the classifier's forward     *)
(* pass (TxtClassifyModel), the evaluation routine (evaluate), the         *)
(* training driver (main) and the prediction routine (predict).            *)
(*                                                                         *)
(* Characters are code points (ord), words are sequences of code points,   *)
(* tensors are represented by their shapes (SpecForward) or by the         *)
(* symbolic expression of the values they were computed from (SpecMain).   *)
(***************************************************************************)
EXTENDS Integers, Sequences, FiniteSets, TLC

\* ------------------------------------------------------------------ bounds
\* largest letter index drawn by build_simple in the model (0 = 'a')
MaxLetter == 3
\* build_words is called in the model with total_words_num + word_dim <= MaxSize
MaxSize == 5
\* largest batch size (constructed or passed) in the model
MaxBatch == 3
\* evaluate is called in the model with sample_size + word_dim <= MaxEvalSize
MaxEvalSize == 4
\* largest score of a row of pred in the model, in units of 1/ScoreUnit
MaxScore == 2
\* resolution of the scores in the model: a score s stands for s / ScoreUnit
ScoreUnit == 2
\* largest epoch_num of main in the model
MaxEpoch == 2
\* largest train_sample of main in the model
MaxTrain == 6
\* largest word_dim of main in the model
MaxWordDim == 2

\* ------------------------------------------------------- program constants
\* ord('a')
OrdA == 97
\* number of letters build_simple draws from: np.random.randint(0, 26)
NumLetters == 26
\* width of the CRC register of crc.Crc8.CCITT
CrcWidth == 8
\* polynomial of crc.Crc8.CCITT (0x07; init 0, no reflection, final xor 0)
CrcPoly == 7

VARIABLES
    \* ---- build_words (SpecGen)
    g_pc,              \* "loop" | "done" | "error" ("idle" outside SpecGen)
    g_i,               \* loop variable i of build_words
    total_words_num,   \* argument of build_words
    word_dim,          \* argument of build_words
    words,             \* list of words
    crclabels,         \* list of one-element feature vectors
    labels,            \* list of labels
    \* ---- TxtClassifyModel.forward (SpecForward)
    f_pc,              \* the line of forward about to run, "return" | "error"
    f_batch_size,      \* batch_size the model was constructed with
    f_training,        \* the module's training flag
    f_batch,           \* number of feature vectors in the call's input
    f_y,               \* "None" | "labels": the call's second argument
    f_x,               \* shape of the local x (of the result once returned)
    \* ---- evaluate (SpecEval)
    e_pc,              \* "eval" | "build" | "forward" | "count" | "return" | "returned" | "error"
    e_batch_size,      \* batch_size the model argument was constructed with
    e_training,        \* training flag of the model argument
    e_sample_size,     \* argument sample_size
    e_word_dim,        \* argument word_dim
    e_sample,          \* [words, crclabels, labels] returned by build_words
    e_pred,            \* the rows of pred, scores in units of 1/ScoreUnit
    e_k,               \* number of (p, t) pairs the loop has taken from zip
    e_correct,         \* local correct
    e_wrong,           \* local wrong
    e_result,          \* returned value <<numerator, denominator>>
    \* ---- main, then predict (SpecMain)
    m_pc,              \* the line of main about to run, "returned" | "error"
    epoch_num,         \* local epoch_num
    batch_size,        \* local batch_size (and the 25 of predict and __main__)
    train_sample,      \* local train_sample
    m_word_dim,        \* local word_dim (and the 10 of __main__)
    model,             \* the TxtClassifyModel of main
    optim,             \* the Adam optimizer: step count and moment estimates
    grad,              \* the .grad of the model's parameters
    log,               \* local log
    train_crclabels,   \* local train_crclabels
    train_labels,      \* local train_labels
    epoch,             \* loop variable epoch
    watch_loss,        \* local watch_loss
    batch_index,       \* loop variable batch_index
    m_crclabels,       \* local crclabels (the batch's features)
    m_labels,          \* local labels (the batch's labels)
    loss,              \* local loss
    np_rng,            \* number of words drawn from numpy's generator so far
    torch_rng,         \* number of draws from torch's generator so far
    file,              \* content of txtclassify.pt
    p_pc,              \* the line of __main__/predict about to run
    p_model,           \* the TxtClassifyModel of predict
    p_sample,          \* the sample passed to predict
    p_result           \* local result of predict

gen_vars == <<g_pc, g_i, total_words_num, word_dim, words, crclabels, labels>>
fwd_vars == <<f_pc, f_batch_size, f_training, f_batch, f_y, f_x>>

eval_vars == <<e_pc, e_batch_size, e_training, e_sample_size, e_word_dim, e_sample,
               e_pred, e_k, e_correct, e_wrong, e_result>>

main_cfg == <<epoch_num, batch_size, train_sample, m_word_dim>>
main_data == <<train_crclabels, train_labels>>
predict_vars == <<p_pc, p_model, p_sample, p_result>>
main_vars == <<m_pc, main_cfg, model, optim, grad, log, main_data, epoch, watch_loss,
               batch_index, m_crclabels, m_labels, loss, np_rng, torch_rng, file,
               predict_vars>>

not_gen_vars == <<fwd_vars, eval_vars, main_vars>>
not_fwd_vars == <<gen_vars, eval_vars, main_vars>>
not_eval_vars == <<gen_vars, fwd_vars, main_vars>>
not_main_vars == <<gen_vars, fwd_vars, eval_vars>>

vars == <<gen_vars, fwd_vars, eval_vars, main_vars>>

\* Values of the variables of a part of the program that is not running
GenIdle ==
    /\ g_pc = "idle" /\ g_i = 0 /\ total_words_num = 0 /\ word_dim = 0
    /\ words = <<>> /\ crclabels = <<>> /\ labels = <<>>
FwdIdle ==
    /\ f_pc = "idle" /\ f_batch_size = 0 /\ f_training = FALSE /\ f_batch = 0
    /\ f_y = "None" /\ f_x = <<>>
NoSample == [fault |-> "none", words |-> <<>>, crclabels |-> <<>>, labels |-> <<>>]
EvalIdle ==
    /\ e_pc = "idle" /\ e_batch_size = 0 /\ e_training = FALSE /\ e_sample_size = 0
    /\ e_word_dim = 0 /\ e_sample = NoSample /\ e_pred = <<>> /\ e_k = 0
    /\ e_correct = 0 /\ e_wrong = 0 /\ e_result = <<>>
NoModel == [batch_size |-> 0, weights |-> [op |-> "none"], running |-> [op |-> "none"],
            num_batches_tracked |-> 0, training |-> FALSE]
NoTensor == [op |-> "none"]
Absent == [op |-> "absent"]
MainIdle ==
    /\ m_pc = "idle" /\ epoch_num = 0 /\ batch_size = 0 /\ train_sample = 0
    /\ m_word_dim = 0 /\ model = NoModel /\ optim = [t |-> 0, moments |-> NoTensor]
    /\ grad = NoTensor /\ log = <<>> /\ train_crclabels = <<>> /\ train_labels = <<>>
    /\ epoch = 0 /\ watch_loss = <<>> /\ batch_index = 0 /\ m_crclabels = <<>>
    /\ m_labels = <<>> /\ loss = NoTensor /\ np_rng = 0 /\ torch_rng = 0
    /\ file = Absent /\ p_pc = "idle" /\ p_model = NoModel /\ p_sample = NoSample
    /\ p_result = NoTensor

\* ------------------------------------------------------------ numpy helpers
\* np.random.randint(low, high): the values it can return, low <= v < high.
\* The set is empty exactly when numpy raises ValueError (low >= high).
randint_inclusive(low, high) == low..high
randint(low, high) == low..(high - 1)

Min(a, b) == IF a < b THEN a ELSE b

\* ------------------------------------------------------------ bit arithmetic
RECURSIVE XorBits(_, _, _)
XorBits(a, b, n) ==
    IF n = 0 THEN 0
    ELSE ((a + b) % 2) + 2 * XorBits(a \div 2, b \div 2, n - 1)

\* a ^ b on CrcWidth-bit values
Xor(a, b) == XorBits(a, b, CrcWidth)

Pow2(n) == IF n = 0 THEN 1 ELSE IF n = 1 THEN 2 ELSE IF n = 2 THEN 4
           ELSE IF n = 3 THEN 8 ELSE IF n = 4 THEN 16 ELSE IF n = 5 THEN 32
           ELSE IF n = 6 THEN 64 ELSE IF n = 7 THEN 128 ELSE 256

\* ---------------------------------------------------------------- generator
\* build_simple(): the characters it can return, chr(randint(0, 26) + ord('a')),
\* restricted in the model to the first MaxLetter + 1 letters.
build_simple == { k + OrdA : k \in randint(0, Min(NumLetters, MaxLetter + 1)) }

\* build_word(word_len) once the characters are drawn: x is the list of the
\* word_len characters appended by the loop; returns the word and its label, or
\* the fault IndexError when x[0] does not exist.
build_word_last(x) ==
    IF Len(x) = 0 THEN [fault |-> "IndexError", word |-> x, label |-> -1]
    ELSE [fault |-> "none", word |-> x, label |-> x[Len(x)] - OrdA]
build_word(x) ==
    IF Len(x) = 0 THEN [fault |-> "IndexError", word |-> x, label |-> -1]
    ELSE [fault |-> "none", word |-> x, label |-> x[1] - OrdA]

\* str.encode(): UTF-8 bytes of a sequence of code points (below 0x800).
RECURSIVE encode(_)
encode(word) ==
    IF Len(word) = 0 THEN <<>>
    ELSE LET c == word[1] IN
         (IF c < 128 THEN <<c>>
          ELSE <<192 + (c \div 64), 128 + (c % 64)>>) \o encode(Tail(word))

\* One byte through the CRC register: xor it in, then CrcWidth shift steps,
\* each xoring the polynomial in when the top bit falls out.
RECURSIVE CrcShift_nomask(_, _)
CrcShift_nomask(reg, n) ==
    IF n = 0 THEN reg
    ELSE LET top == (reg \div Pow2(CrcWidth - 1)) % 2
             shifted == reg * 2
         IN CrcShift_nomask(IF top = 1 THEN shifted + CrcPoly ELSE shifted, n - 1)
RECURSIVE CrcShift(_, _)
CrcShift(reg, n) ==
    IF n = 0 THEN reg
    ELSE LET top == reg \div Pow2(CrcWidth - 1)
             shifted == (reg * 2) % Pow2(CrcWidth)
         IN CrcShift(IF top = 1 THEN Xor(shifted, CrcPoly) ELSE shifted, n - 1)

CrcTable == [b \in 0..(Pow2(CrcWidth) - 1) |-> CrcShift(b, 8)]

\* crc.Calculator(crc.Crc8.CCITT).checksum(data): register starts at 0.
RECURSIVE CrcFold(_, _)
CrcFold(reg, data) ==
    IF Len(data) = 0 THEN reg
    ELSE CrcFold(CrcTable[Xor(reg, data[1])], Tail(data))

checksum(data) == CrcFold(0, data)

\* build_crc_label(word): the checksum wrapped in a one-element list
build_crc_label(word) == <<checksum(encode(word))>>

\* The body of the loop of build_words for one drawn word x: the three lists
\* after the three appends, or the fault of build_word.
build_words_body_dedup(ws, cs, ls, x) ==
    LET r == build_word(x) IN
    IF r.fault # "none" \/ \E i \in 1..Len(cs) : cs[i] = build_crc_label(r.word)
    THEN [fault |-> r.fault, words |-> ws, crclabels |-> cs, labels |-> ls]
    ELSE [fault |-> "none",
          words |-> Append(ws, r.word),
          crclabels |-> Append(cs, build_crc_label(r.word)),
          labels |-> Append(ls, r.label)]
build_words_body(ws, cs, ls, x) ==
    LET r == build_word(x) IN
    IF r.fault # "none"
    THEN [fault |-> r.fault, words |-> ws, crclabels |-> cs, labels |-> ls]
    ELSE [fault |-> "none",
          words |-> Append(ws, r.word),
          crclabels |-> Append(cs, build_crc_label(r.word)),
          labels |-> Append(ls, r.label)]

\* The word lengths one iteration of build_words can draw
WordLens(wd) == randint(1, wd)

\* The character lists build_word(word_len) can draw
Draws(word_len) == [1..word_len -> build_simple]

\* The three lists build_words returns when its iterations draw these words
RECURSIVE build_words_fold(_, _)
build_words_fold(r, draws) ==
    IF Len(draws) = 0 \/ r.fault # "none" THEN r
    ELSE build_words_fold(build_words_body(r.words, r.crclabels, r.labels, draws[1]),
                          Tail(draws))

\* build_words(total_words_num, word_dim) as one call: everything it can
\* return, or the ValueError of np.random.randint(1, word_dim).
build_words(n, wd) ==
    IF n >= 1 /\ WordLens(wd) = {}
    THEN {[fault |-> "ValueError", words |-> <<>>, crclabels |-> <<>>, labels |-> <<>>]}
    ELSE { build_words_fold(NoSample, d) :
           d \in [1..n -> UNION { Draws(l) : l \in WordLens(wd) }] }

GenInit ==
    /\ g_pc = "loop"
    /\ g_i = 0
    /\ total_words_num \in 0..MaxSize
    /\ word_dim \in 0..(MaxSize - total_words_num)
    /\ words = <<>>
    /\ crclabels = <<>>
    /\ labels = <<>>
    /\ FwdIdle /\ EvalIdle /\ MainIdle

\* One iteration of the for loop of build_words that completes.
BuildWordsIter ==
    /\ g_pc = "loop"
    /\ g_i < total_words_num
    /\ g_i' = g_i + 1
    /\ \E word_len \in WordLens(word_dim) : \E x \in Draws(word_len) :
          LET r == build_words_body(words, crclabels, labels, x) IN
          /\ words' = r.words
          /\ crclabels' = r.crclabels
          /\ labels' = r.labels
          /\ g_pc' = IF r.fault = "none" THEN "loop" ELSE "error"
    /\ UNCHANGED <<total_words_num, word_dim, not_gen_vars>>

\* One iteration whose np.random.randint(1, word_dim) raises ValueError.
BuildWordsRaise ==
    /\ g_pc = "loop"
    /\ g_i < total_words_num
    /\ WordLens(word_dim) = {}
    /\ g_pc' = "error"
    /\ UNCHANGED <<g_i, total_words_num, word_dim, words, crclabels, labels, not_gen_vars>>

\* The loop is over: return words, crclabels, labels.
BuildWordsReturn ==
    /\ g_pc = "loop"
    /\ g_i >= total_words_num
    /\ g_pc' = "done"
    /\ UNCHANGED <<g_i, total_words_num, word_dim, words, crclabels, labels, not_gen_vars>>

GenNext == BuildWordsIter \/ BuildWordsRaise \/ BuildWordsReturn

SpecGen == GenInit /\ [][GenNext]_vars

\* ------------------------------------------------------------ tensor shapes
\* number of classes: nn.Linear(1, 26), nn.Linear(26, 26), nn.BatchNorm1d(26)
NumClasses == 26
\* input features of layer1: nn.Linear(1, 26)
InFeatures == 1
\* kernel size of the convolution: nn.Conv1d(batch_size, batch_size, 1)
KernelSize == 1

Ok(shape) == [fault |-> "none", shape |-> shape]
Fault(kind, shape) == [fault |-> kind, shape |-> shape]

\* torch.FloatTensor(crclabels) for a list of n one-element lists: n x 1, and
\* a tensor of shape (0,) for the empty list.
FloatTensor(n) == IF n = 0 THEN <<0>> ELSE <<n, InFeatures>>

\* torch.LongTensor(labels) for a list of n integers
LongTensor(n) == <<n>>

\* nn.Linear(in_features, out_features) applied to a tensor of this shape:
\* the last dimension must be in_features and becomes out_features.
Linear_keep(in_features, out_features, shape) == Ok(shape)
Linear(in_features, out_features, shape) ==
    IF Len(shape) = 0 \/ shape[Len(shape)] # in_features
    THEN Fault("RuntimeError", shape)
    ELSE Ok([shape EXCEPT ![Len(shape)] = out_features])

RECURSIVE Prod(_)
Prod(s) == IF Len(s) = 0 THEN 1 ELSE s[1] * Prod(Tail(s))

\* nn.BatchNorm1d(num_features) applied to a tensor of this shape: the input is
\* (N, C) or (N, C, L) with C = num_features; in training mode it refuses an
\* input with one value per channel.
BatchNorm1d(num_features, training, shape) ==
    IF Len(shape) \notin {2, 3} THEN Fault("ValueError", shape)
    ELSE IF training /\ shape[1] * Prod(SubSeq(shape, 3, Len(shape))) = 1
    THEN Fault("ValueError", shape)
    ELSE IF shape[2] # num_features THEN Fault("RuntimeError", shape)
    ELSE Ok(shape)

\* nn.Conv1d(in_channels, out_channels, kernel_size) applied to a tensor of
\* this shape: a 2-D input is one unbatched sample (channels, length), a 3-D
\* input a batch (N, channels, length); the channels must be in_channels.
Conv1d_anychannels(in_channels, out_channels, kernel_size, shape) == Ok(shape)
Conv1d(in_channels, out_channels, kernel_size, shape) ==
    IF Len(shape) \notin {2, 3} THEN Fault("RuntimeError", shape)
    ELSE LET c == Len(shape) - 1
             l == Len(shape)
         IN IF shape[c] # in_channels \/ shape[l] < kernel_size
            THEN Fault("RuntimeError", shape)
            ELSE Ok([shape EXCEPT ![c] = out_channels,
                                  ![l] = shape[l] - kernel_size + 1])

\* nn.functional.cross_entropy(input, target) on class scores (N, C) and class
\* indices (N): the mean loss, a scalar.
cross_entropy(shape, target) ==
    IF Len(shape) # 2 \/ Len(target) # 1 \/ shape[1] # target[1]
    THEN Fault("ValueError", shape)
    ELSE Ok(<<>>)

\* The state of a forward call between two lines: the fault raised so far,
\* the shape of x, and how many calls of self.batchnorm have passed the check
\* of the number of dimensions (entered) and how many have returned (done).
Entry(x) == [fault |-> "none", shape |-> x, entered |-> 0, done |-> 0]

\* x = self.layer1(x) / x = self.layer2(x); a line after a fault does not run
after_linear(s, in_features, out_features) ==
    IF s.fault # "none" THEN s
    ELSE [s EXCEPT !.fault = Linear(in_features, out_features, s.shape).fault,
                   !.shape = Linear(in_features, out_features, s.shape).shape]

\* x = self.batchnorm(x)
after_batchnorm(s, training) ==
    IF s.fault # "none" THEN s
    ELSE [fault |-> BatchNorm1d(NumClasses, training, s.shape).fault,
          shape |-> BatchNorm1d(NumClasses, training, s.shape).shape,
          entered |-> s.entered + IF Len(s.shape) \in {2, 3} THEN 1 ELSE 0,
          done |-> s.done + IF BatchNorm1d(NumClasses, training, s.shape).fault = "none"
                            THEN 1 ELSE 0]

\* x = self.conv(x)
after_conv(s, bs) ==
    IF s.fault # "none" THEN s
    ELSE [s EXCEPT !.fault = Conv1d(bs, bs, KernelSize, s.shape).fault,
                   !.shape = Conv1d(bs, bs, KernelSize, s.shape).shape]

\* Lines 26 to 35 of forward, in order (activation and dropout keep the shape).
forward_lines(bs, training, x) ==
    after_batchnorm(
        after_linear(
            after_batchnorm(
                after_conv(
                    after_batchnorm(
                        after_linear(Entry(x), InFeatures, NumClasses),
                        training),
                    bs),
                training),
            NumClasses, NumClasses),
        training)

\* TxtClassifyModel(bs).forward(x, y) on shapes: x is the shape of the input,
\* y the shape of the labels when has_y (y is not None). A line that faults
\* ends the call.
forward(bs, training, x, has_y, y) ==
    LET s == forward_lines(bs, training, x)
    IN IF ~has_y \/ s.fault # "none" THEN [fault |-> s.fault, shape |-> s.shape]
       ELSE cross_entropy(s.shape, y)

\* ------------------------------------------------- forward, line by line
FwdInit ==
    /\ f_pc = "layer1"
    /\ f_batch_size \in 1..MaxBatch
    /\ f_training \in BOOLEAN
    /\ f_batch \in 0..MaxBatch
    /\ f_y \in {"None", "labels"}
    /\ f_x = FloatTensor(f_batch)
    /\ GenIdle /\ EvalIdle /\ MainIdle

\* One line of forward: x = <layer>(x), then on to the line `next`.
FwdLine(at, r, next) ==
    /\ f_pc = at
    /\ f_x' = r.shape
    /\ f_pc' = IF r.fault = "none" THEN next ELSE "error"
    /\ UNCHANGED <<f_batch_size, f_training, f_batch, f_y, not_fwd_vars>>

\* x = self.layer1(x)
FwdLayer1 ==
    FwdLine("layer1", Linear(InFeatures, NumClasses, f_x), "batchnorm1")
\* x = self.batchnorm(x)
FwdBatchNorm1 ==
    FwdLine("batchnorm1", BatchNorm1d(NumClasses, f_training, f_x), "activation1")
\* x = self.activation(x)
FwdActivation1 == FwdLine("activation1", Ok(f_x), "conv")
\* x = self.conv(x)
FwdConv ==
    FwdLine("conv", Conv1d(f_batch_size, f_batch_size, KernelSize, f_x), "batchnorm2")
\* x = self.batchnorm(x)
FwdBatchNorm2 ==
    FwdLine("batchnorm2", BatchNorm1d(NumClasses, f_training, f_x), "activation2")
\* x = self.activation(x)
FwdActivation2 == FwdLine("activation2", Ok(f_x), "layer2")
\* x = self.layer2(x)
FwdLayer2 ==
    FwdLine("layer2", Linear(NumClasses, NumClasses, f_x), "batchnorm3")
\* x = self.batchnorm(x)
FwdBatchNorm3 ==
    FwdLine("batchnorm3", BatchNorm1d(NumClasses, f_training, f_x), "activation3")
\* x = self.activation(x)
FwdActivation3 == FwdLine("activation3", Ok(f_x), "dropout")
\* x = self.dropout(x)
FwdDropout == FwdLine("dropout", Ok(f_x), "if_y")
\* if y is not None: return self.loss(x, y)
FwdLoss ==
    /\ f_y # "None"
    /\ FwdLine("if_y", cross_entropy(f_x, LongTensor(f_batch)), "return")
\* return x
FwdReturn ==
    /\ f_y = "None"
    /\ FwdLine("if_y", Ok(f_x), "return")

FwdNext ==
    \/ FwdLayer1 \/ FwdBatchNorm1 \/ FwdActivation1 \/ FwdConv
    \/ FwdBatchNorm2 \/ FwdActivation2 \/ FwdLayer2 \/ FwdBatchNorm3
    \/ FwdActivation3 \/ FwdDropout \/ FwdLoss \/ FwdReturn

SpecForward == FwdInit /\ [][FwdNext]_vars

\* ------------------------------------------------------------ forward claims
\* C5 as stated: for every batch size passed to it, forward returns a scalar
\* loss when labels are supplied and a batch x 26 score matrix when not.
C5_Original_AnyBatchSize ==
    /\ f_pc # "error"
    /\ f_pc = "return" =>
          f_x = IF f_y = "None" THEN <<f_batch, NumClasses>> ELSE <<>>

\* The batches forward accepts: as many feature vectors as the batch_size the
\* model was constructed with, and more than one in training mode.
Accepted == f_batch = f_batch_size /\ (f_training => f_batch > 1)

\* C5 amended: forward returns a scalar loss (labels supplied) or a
\* batch x 26 score matrix (no labels) exactly for the batches whose size is
\* the batch_size the model was constructed with (and is more than one when
\* the model is in training mode); every other batch faults inside forward
\* and nothing is returned.
C5_ShapesForConstructedBatchSize ==
    /\ f_pc # "idle" =>
          /\ Accepted => f_pc # "error"
          /\ ~Accepted => f_pc # "return"
    /\ f_pc = "return" =>
          f_x = IF f_y = "None" THEN <<f_batch, NumClasses>> ELSE <<>>
    /\ f_pc \in {"return", "error"} =>
          LET r == forward(f_batch_size, f_training, FloatTensor(f_batch),
                           f_y # "None", LongTensor(f_batch))
          IN /\ (r.fault = "none") = (f_pc = "return")
             /\ r.shape = f_x

C5_Witness ==
    /\ f_pc = "return"
    /\ f_batch = MaxBatch
    /\ f_batch_size = MaxBatch
    /\ f_y = "None"
    /\ f_x = <<MaxBatch, NumClasses>>

\* ----------------------------------------------------------------- evaluate
\* A row of pred whose entries are 0 except for v at class k
Row(k, v) == [c \in 0..(NumClasses - 1) |-> IF c = k THEN v ELSE 0]

\* The rows of scores the model is given in the model: all zero, or one
\* positive score at the first or at the last class. (In eval mode every score
\* is the output of relu, so none is negative.)
Rows == { Row(k, v) : k \in {0, NumClasses - 1}, v \in 0..MaxScore }

\* np.max(p.numpy()): the largest entry of a row
RECURSIVE MaxFrom(_, _)
MaxFrom(p, c) ==
    IF c = NumClasses - 1 THEN p[c]
    ELSE LET rest == MaxFrom(p, c + 1) IN IF p[c] >= rest THEN p[c] ELSE rest
np_max(p) == MaxFrom(p, 0)

\* np.argmax: the first index of the largest entry
np_argmax(p) == CHOOSE c \in 0..(NumClasses - 1) :
                   /\ p[c] = np_max(p)
                   /\ \A d \in 0..(c - 1) : p[d] # np_max(p)

\* The test of line 80, np.max(p.numpy()) == t: the score (in units of
\* 1/ScoreUnit) against the integer label.
is_correct_argmax(p, t) == np_argmax(p) = t
is_correct(p, t) == np_max(p) = t * ScoreUnit

EvalInit ==
    /\ e_pc = "eval"
    /\ e_sample_size \in 0..MaxEvalSize
    /\ e_word_dim \in 0..(MaxEvalSize - e_sample_size)
    /\ e_batch_size \in 1..MaxBatch
    /\ e_training \in BOOLEAN
    /\ e_sample = NoSample
    /\ e_pred = <<>>
    /\ e_k = 0
    /\ e_correct = 0
    /\ e_wrong = 0
    /\ e_result = <<>>
    /\ GenIdle /\ FwdIdle /\ MainIdle

\* model.eval()
EvalModeEval ==
    /\ e_pc = "eval"
    /\ e_training' = FALSE
    /\ e_pc' = "build"
    /\ UNCHANGED <<e_batch_size, e_sample_size, e_word_dim, e_sample, e_pred, e_k,
                   e_correct, e_wrong, e_result, not_eval_vars>>

\* words, crclabels, labels = build_words(sample_size, word_dim);
\* correct, wrong = 0, 0
EvalBuildWords ==
    /\ e_pc = "build"
    /\ \E r \in build_words(e_sample_size, e_word_dim) :
          /\ e_sample' = r
          /\ e_pc' = IF r.fault = "none" THEN "forward" ELSE "error"
    /\ e_correct' = 0
    /\ e_wrong' = 0
    /\ UNCHANGED <<e_batch_size, e_training, e_sample_size, e_word_dim, e_pred, e_k,
                   e_result, not_eval_vars>>

\* pred = model(torch.FloatTensor(crclabels)) under torch.no_grad()
EvalForward ==
    /\ e_pc = "forward"
    /\ LET r == forward(e_batch_size, e_training,
                        FloatTensor(Len(e_sample.crclabels)), FALSE, <<>>)
       IN IF r.fault # "none"
          THEN e_pc' = "error" /\ e_pred' = e_pred
          ELSE /\ e_pc' = "count"
               /\ e_pred' \in [1..r.shape[1] -> Rows]
    /\ UNCHANGED <<e_batch_size, e_training, e_sample_size, e_word_dim, e_sample, e_k,
                   e_correct, e_wrong, e_result, not_eval_vars>>

\* One iteration of `for p, t in zip(pred, labels)`
EvalCount ==
    /\ e_pc = "count"
    /\ e_k < Len(e_pred) /\ e_k < Len(e_sample.labels)
    /\ e_k' = e_k + 1
    /\ IF is_correct(e_pred[e_k + 1], e_sample.labels[e_k + 1])
       THEN e_correct' = e_correct + 1 /\ e_wrong' = e_wrong
       ELSE e_wrong' = e_wrong + 1 /\ e_correct' = e_correct
    /\ UNCHANGED <<e_pc, e_batch_size, e_training, e_sample_size, e_word_dim, e_sample,
                   e_pred, e_result, not_eval_vars>>

\* zip is exhausted: print and return correct / (correct + wrong)
EvalReturn ==
    /\ e_pc = "count"
    /\ ~(e_k < Len(e_pred) /\ e_k < Len(e_sample.labels))
    /\ IF e_correct + e_wrong = 0
       THEN e_pc' = "error" /\ e_result' = e_result
       ELSE e_pc' = "returned" /\ e_result' = <<e_correct, e_correct + e_wrong>>
    /\ UNCHANGED <<e_batch_size, e_training, e_sample_size, e_word_dim, e_sample,
                   e_pred, e_k, e_correct, e_wrong, not_eval_vars>>

EvalNext ==
    \/ EvalModeEval \/ EvalBuildWords \/ EvalForward \/ EvalCount \/ EvalReturn

SpecEval == EvalInit /\ [][EvalNext]_vars

\* ----------------------------------------------------------- evaluate claims
\* The samples whose highest score has the numeric value of their label
ValueHits == { i \in 1..Len(e_pred) : np_max(e_pred[i]) = e_sample.labels[i] * ScoreUnit }

\* C8: once evaluate has returned, it generated exactly sample_size samples,
\* counted as correct exactly those whose highest score has the numeric value
\* of their label, counted every other sample as wrong, and returned
\* correct / sample_size, a probability in [0, 1]; and it does return when
\* sample_size is the model's batch size and word_dim is at least 2, as in
\* the call main makes.
C8_AccuracyCountsValueHits ==
    /\ e_pc = "returned" =>
          /\ Len(e_sample.words) = e_sample_size
          /\ Len(e_sample.crclabels) = e_sample_size
          /\ Len(e_sample.labels) = e_sample_size
          /\ Len(e_pred) = e_sample_size
          /\ e_correct = Cardinality(ValueHits)
          /\ e_wrong = e_sample_size - Cardinality(ValueHits)
          /\ e_correct + e_wrong = e_sample_size
          /\ e_result = <<e_correct, e_sample_size>>
          /\ e_result[2] > 0
          /\ 0 <= e_result[1] /\ e_result[1] <= e_result[2]
    /\ e_pc = "count" => e_correct + e_wrong = e_k /\ ~e_training
    /\ (e_sample_size = e_batch_size /\ e_word_dim >= 2) => e_pc # "error"

\* A returned evaluation that counted a sample whose highest score has the value of
\* its label at another class as correct, and a sample whose highest score is at the
\* class of its label with another value as wrong.
C8_Witness ==
    /\ e_pc = "returned"
    /\ e_correct >= 1
    /\ e_wrong >= 1
    /\ \E i \in 1..Len(e_pred) :
          /\ np_max(e_pred[i]) = e_sample.labels[i] * ScoreUnit
          /\ np_argmax(e_pred[i]) # e_sample.labels[i]
    /\ \E i \in 1..Len(e_pred) :
          /\ np_max(e_pred[i]) # e_sample.labels[i] * ScoreUnit
          /\ np_argmax(e_pred[i]) = e_sample.labels[i]

\* ------------------------------------------------- main and predict: values
\* In SpecMain a tensor is the expression that computed it: a record naming
\* the operation and its operands. Two tensors with the same expression have
\* the same value; random draws are named by their position in the stream of
\* the generator they come from.

\* Python's s[lo:hi] for 0 <= lo <= hi
Slice_shifted(s, lo, hi) == SubSeq(s, Min(lo + 1, Len(s)) + 1, Min(hi + 1, Len(s)))
Slice(s, lo, hi) == SubSeq(s, Min(lo, Len(s)) + 1, Min(hi, Len(s)))

\* The k-th word drawn from numpy's generator
Word(k) == [op |-> "word", draw |-> k]

\* build_words(n, wd) when rng words have been drawn before: the three lists
\* of the next n words, their features and their labels, or the ValueError of
\* np.random.randint(1, word_dim).
build_words_drawn(n, wd, rng) ==
    IF n >= 1 /\ WordLens(wd) = {}
    THEN [fault |-> "ValueError", words |-> <<>>, crclabels |-> <<>>, labels |-> <<>>]
    ELSE [fault |-> "none",
          words |-> [i \in 1..n |-> Word(rng + i)],
          crclabels |-> [i \in 1..n |-> <<[op |-> "build_crc_label", word |-> Word(rng + i)]>>],
          labels |-> [i \in 1..n |-> [op |-> "label", word |-> Word(rng + i)]]]

\* TxtClassifyModel(bs): parameters freshly drawn from torch's generator,
\* batch-norm statistics at their defaults, training mode.
TxtClassifyModel(bs, rng) ==
    [batch_size |-> bs,
     weights |-> [op |-> "init", draw |-> rng],
     running |-> [op |-> "init_stats"],
     num_batches_tracked |-> 0,
     training |-> TRUE]

\* One update of the running statistics by self.batchnorm in training mode
BatchNormUpdate(m, x, call) ==
    [m EXCEPT !.running = [op |-> "momentum_update", prev |-> @,
                           batch |-> [call |-> call, weights |-> m.weights, x |-> x]],
              !.num_batches_tracked = @ + 1]

\* model(x) / model(x, y): the fault of forward on these shapes, the value it
\* returns, the model after the call (after the lines that ran, when a line
\* faults) and the number of dropout masks drawn.
\* In training mode the scores depend on the batch statistics and the mask and
\* each call of self.batchnorm that returns updates the running statistics; in
\* eval mode the scores depend on the running statistics and no mask is drawn.
\* In training mode _BatchNorm.forward checks the number of dimensions, then
\* adds 1 to num_batches_tracked, and only then does F.batch_norm verify the
\* batch size and the channels and update the running statistics: a call
\* that faults in F.batch_norm has already counted the batch.
model_call(m, x, has_y, y, rng) ==
    LET r == forward(m.batch_size, m.training, FloatTensor(Len(x)), has_y,
                     LongTensor(Len(y)))
        s == forward_lines(m.batch_size, m.training, FloatTensor(Len(x)))
        scores == IF m.training
                  THEN [op |-> "train_scores", weights |-> m.weights, x |-> x, mask |-> rng]
                  ELSE [op |-> "eval_scores", weights |-> m.weights,
                        running |-> m.running, x |-> x]
        updated == IF s.done = 0 THEN m
                   ELSE IF s.done = 1 THEN BatchNormUpdate(m, x, 1)
                   ELSE IF s.done = 2 THEN BatchNormUpdate(BatchNormUpdate(m, x, 1), x, 2)
                   ELSE BatchNormUpdate(BatchNormUpdate(BatchNormUpdate(m, x, 1), x, 2), x, 3)
    IN [fault |-> r.fault,
        value |-> IF has_y
                  THEN [op |-> "cross_entropy", input |-> scores, target |-> y]
                  ELSE scores,
        model |-> IF m.training
                  THEN [updated EXCEPT !.num_batches_tracked = @ + (s.entered - s.done)]
                  ELSE m,
        draws |-> IF m.training /\ s.fault = "none" THEN 1 ELSE 0]

\* loss.backward(): the gradient of the loss is added to .grad
backward(g, l) ==
    IF g = NoTensor THEN [op |-> "grad", of |-> l]
    ELSE [op |-> "grad_sum", prev |-> g, of |-> l]

\* optim.step() of Adam: parameters without a gradient are skipped
optim_step(m, o, g) ==
    IF g = NoTensor THEN [model |-> m, optim |-> o]
    ELSE LET o2 == [t |-> o.t + 1,
                    moments |-> [op |-> "moments", prev |-> o.moments, grad |-> g]]
         IN [model |-> [m EXCEPT !.weights = [op |-> "adam", prev |-> @, state |-> o2]],
             optim |-> o2]

\* model.state_dict(): parameters and buffers (the training flag is not part)
state_dict_params_only(m) ==
    [weights |-> m.weights, running |-> [op |-> "init_stats"],
     num_batches_tracked |-> 0, conv_channels |-> m.batch_size]
state_dict(m) ==
    [weights |-> m.weights, running |-> m.running,
     num_batches_tracked |-> m.num_batches_tracked, conv_channels |-> m.batch_size]

\* torch.save(obj, path) / torch.load(path): the file holds the entries of
\* the dictionary in order, and loading rebuilds the dictionary from them.
torch_save(sd) ==
    [op |-> "file",
     entries |-> << <<"weights", sd.weights>>, <<"running", sd.running>>,
                    <<"num_batches_tracked", sd.num_batches_tracked>>,
                    <<"conv_channels", sd.conv_channels>> >>]
torch_load(f) ==
    [weights |-> f.entries[1][2], running |-> f.entries[2][2],
     num_batches_tracked |-> f.entries[3][2], conv_channels |-> f.entries[4][2]]

\* model.load_state_dict(sd): every entry is handled on its own. An entry
\* whose size fits is copied into the module; conv.weight and conv.bias of
\* another channel count are skipped and reported, and RuntimeError is
\* raised after all entries were visited: the module then has the loaded
\* parameters and buffers except conv.*, which keeps its own values.
\* The training flag is not part of the dictionary and is kept.
load_state_dict(m, sd) ==
    IF sd.conv_channels # m.batch_size
    THEN [fault |-> "RuntimeError",
          model |-> [m EXCEPT !.weights = [op |-> "partial_load", conv |-> @,
                                           others |-> sd.weights],
                              !.running = sd.running,
                              !.num_batches_tracked = sd.num_batches_tracked]]
    ELSE [fault |-> "none",
          model |-> [m EXCEPT !.weights = sd.weights, !.running = sd.running,
                              !.num_batches_tracked = sd.num_batches_tracked]]

\* evaluate(model, sample_size, word_dim) as one call: model.eval(), fresh
\* samples, inference, and the accuracy as a function of pred and labels.
evaluate(m, sample_size, wd, rng) ==
    LET m2 == [m EXCEPT !.training = FALSE]
        sample == build_words_drawn(sample_size, wd, rng)
        call == model_call(m2, sample.crclabels, FALSE, <<>>, 0)
    IN [fault |-> IF sample.fault # "none" THEN sample.fault
                  ELSE IF call.fault # "none" THEN call.fault
                  ELSE IF sample_size = 0 THEN "ZeroDivisionError" ELSE "none",
        model |-> IF sample.fault = "none" THEN call.model ELSE m2,
        drawn |-> IF sample.fault = "none" THEN sample_size ELSE 0,
        acc |-> [op |-> "accuracy", pred |-> call.value, labels |-> sample.labels]]

\* ------------------------------------------------------------------- main
\* range(train_sample // batch_size): the number of batches of an epoch
NumBatches == train_sample \div batch_size

MainInit ==
    /\ m_pc = "construct"
    /\ epoch_num \in 1..MaxEpoch
    /\ batch_size \in 1..MaxBatch
    /\ train_sample \in 0..MaxTrain
    /\ m_word_dim \in 1..MaxWordDim
    /\ model = NoModel /\ optim = [t |-> 0, moments |-> NoTensor]
    /\ grad = NoTensor /\ log = <<>> /\ train_crclabels = <<>> /\ train_labels = <<>>
    /\ epoch = 0 /\ watch_loss = <<>> /\ batch_index = 0 /\ m_crclabels = <<>>
    /\ m_labels = <<>> /\ loss = NoTensor /\ np_rng = 0 /\ torch_rng = 0
    /\ file = Absent /\ p_pc = "idle" /\ p_model = NoModel /\ p_sample = NoSample
    /\ p_result = NoTensor
    /\ GenIdle /\ FwdIdle /\ EvalIdle

\* model = TxtClassifyModel(batch_size); optim = Adam(...); log = []
MainConstruct ==
    /\ m_pc = "construct"
    /\ model' = TxtClassifyModel(batch_size, torch_rng)
    /\ torch_rng' = torch_rng + 1
    /\ optim' = [t |-> 0, moments |-> [op |-> "zeros"]]
    /\ log' = <<>>
    /\ m_pc' = "build"
    /\ UNCHANGED <<main_cfg, grad, main_data, epoch, watch_loss, batch_index,
                   m_crclabels, m_labels, loss, np_rng, file, predict_vars,
                   not_main_vars>>

\* words, train_crclabels, train_labels = build_words(train_sample, word_dim)
MainBuildWords ==
    /\ m_pc = "build"
    /\ LET r == build_words_drawn(train_sample, m_word_dim, np_rng) IN
          /\ train_crclabels' = r.crclabels
          /\ train_labels' = r.labels
          /\ np_rng' = IF r.fault = "none" THEN np_rng + train_sample ELSE np_rng
          /\ m_pc' = IF r.fault = "none" THEN "epoch" ELSE "error"
    /\ UNCHANGED <<main_cfg, model, optim, grad, log, epoch, watch_loss, batch_index,
                   m_crclabels, m_labels, loss, torch_rng, file, predict_vars,
                   not_main_vars>>

\* for epoch in range(epoch_num): model.train(); watch_loss = []
MainEpochHead_no_train ==
    /\ m_pc = "epoch"
    /\ epoch < epoch_num
    /\ watch_loss' = <<>>
    /\ batch_index' = 0
    /\ m_pc' = "batch"
    /\ UNCHANGED <<main_cfg, model, optim, grad, log, main_data, epoch, m_crclabels,
                   m_labels, loss, np_rng, torch_rng, file, predict_vars,
                   not_main_vars>>
MainEpochHead ==
    /\ m_pc = "epoch"
    /\ epoch < epoch_num
    /\ model' = [model EXCEPT !.training = TRUE]
    /\ watch_loss' = <<>>
    /\ batch_index' = 0
    /\ m_pc' = "batch"
    /\ UNCHANGED <<main_cfg, optim, grad, log, main_data, epoch, m_crclabels,
                   m_labels, loss, np_rng, torch_rng, file, predict_vars,
                   not_main_vars>>

\* the epochs are over
MainEpochsDone_early ==
    /\ m_pc = "epoch"
    /\ epoch >= epoch_num - 1
    /\ m_pc' = "save"
    /\ UNCHANGED <<main_cfg, model, optim, grad, log, main_data, epoch, watch_loss,
                   batch_index, m_crclabels, m_labels, loss, np_rng, torch_rng, file,
                   predict_vars, not_main_vars>>
MainEpochsDone ==
    /\ m_pc = "epoch"
    /\ epoch >= epoch_num
    /\ m_pc' = "save"
    /\ UNCHANGED <<main_cfg, model, optim, grad, log, main_data, epoch, watch_loss,
                   batch_index, m_crclabels, m_labels, loss, np_rng, torch_rng, file,
                   predict_vars, not_main_vars>>

\* for batch_index in range(train_sample // batch_size): the two slices and
\* loss = model(torch.FloatTensor(crclabels), torch.LongTensor(labels))
MainForward ==
    /\ m_pc = "batch"
    /\ batch_index < NumBatches
    /\ LET xs == Slice(train_crclabels, batch_index * batch_size,
                       (batch_index + 1) * batch_size)
           ys == Slice(train_labels, batch_index * batch_size,
                       (batch_index + 1) * batch_size)
           call == model_call(model, xs, TRUE, ys, torch_rng)
       IN /\ m_crclabels' = xs
          /\ m_labels' = ys
          /\ model' = call.model
          /\ torch_rng' = torch_rng + call.draws
          /\ IF call.fault # "none"
             THEN m_pc' = "error" /\ loss' = loss
             ELSE m_pc' = "backward" /\ loss' = call.value
    /\ UNCHANGED <<main_cfg, optim, grad, log, main_data, epoch, watch_loss,
                   batch_index, np_rng, file, predict_vars, not_main_vars>>

\* the batches of this epoch are over
MainBatchesDone ==
    /\ m_pc = "batch"
    /\ batch_index >= NumBatches
    /\ m_pc' = "evaluate"
    /\ UNCHANGED <<main_cfg, model, optim, grad, log, main_data, epoch, watch_loss,
                   batch_index, m_crclabels, m_labels, loss, np_rng, torch_rng, file,
                   predict_vars, not_main_vars>>

\* loss.backward()
MainBackward ==
    /\ m_pc = "backward"
    /\ grad' = backward(grad, loss)
    /\ m_pc' = "step"
    /\ UNCHANGED <<main_cfg, model, optim, log, main_data, epoch, watch_loss,
                   batch_index, m_crclabels, m_labels, loss, np_rng, torch_rng, file,
                   predict_vars, not_main_vars>>

\* optim.step()
MainOptimStep ==
    /\ m_pc = "step"
    /\ LET r == optim_step(model, optim, grad) IN
          /\ model' = r.model
          /\ optim' = r.optim
    /\ m_pc' = "zero_grad"
    /\ UNCHANGED <<main_cfg, grad, log, main_data, epoch, watch_loss, batch_index,
                   m_crclabels, m_labels, loss, np_rng, torch_rng, file, predict_vars,
                   not_main_vars>>

\* optim.zero_grad()
MainZeroGrad ==
    /\ m_pc = "zero_grad"
    /\ grad' = NoTensor
    /\ m_pc' = "append"
    /\ UNCHANGED <<main_cfg, model, optim, log, main_data, epoch, watch_loss,
                   batch_index, m_crclabels, m_labels, loss, np_rng, torch_rng, file,
                   predict_vars, not_main_vars>>

\* watch_loss.append(loss.item()), and on to the next batch_index
MainAppendLoss ==
    /\ m_pc = "append"
    /\ watch_loss' = Append(watch_loss, loss)
    /\ batch_index' = batch_index + 1
    /\ m_pc' = "batch"
    /\ UNCHANGED <<main_cfg, model, optim, grad, log, main_data, epoch, m_crclabels,
                   m_labels, loss, np_rng, torch_rng, file, predict_vars,
                   not_main_vars>>

\* acc = evaluate(model, batch_size, word_dim);
\* log.append([acc, float(np.mean(watch_loss))]), and on to the next epoch
MainEvaluate ==
    /\ m_pc = "evaluate"
    /\ LET r == evaluate(model, batch_size, m_word_dim, np_rng) IN
          /\ model' = r.model
          /\ np_rng' = np_rng + r.drawn
          /\ IF r.fault # "none"
             THEN m_pc' = "error" /\ UNCHANGED <<log, epoch>>
             ELSE /\ log' = Append(log, <<r.acc, [op |-> "mean", of |-> watch_loss]>>)
                  /\ epoch' = epoch + 1
                  /\ m_pc' = "epoch"
    /\ UNCHANGED <<main_cfg, optim, grad, main_data, watch_loss, batch_index,
                   m_crclabels, m_labels, loss, torch_rng, file, predict_vars,
                   not_main_vars>>

\* torch.save(model.state_dict(), "txtclassify.pt")
MainSave ==
    /\ m_pc = "save"
    /\ file' = torch_save(state_dict(model))
    /\ m_pc' = "plot"
    /\ UNCHANGED <<main_cfg, model, optim, grad, log, main_data, epoch, watch_loss,
                   batch_index, m_crclabels, m_labels, loss, np_rng, torch_rng,
                   predict_vars, not_main_vars>>

\* print(log), the two plots, return
MainPlot ==
    /\ m_pc = "plot"
    /\ m_pc' = "returned"
    /\ UNCHANGED <<main_cfg, model, optim, grad, log, main_data, epoch, watch_loss,
                   batch_index, m_crclabels, m_labels, loss, np_rng, torch_rng, file,
                   predict_vars, not_main_vars>>

\* ---------------------------------------------------------------- predict
main_locals == <<m_pc, main_cfg, model, optim, grad, log, main_data, epoch, watch_loss,
                 batch_index, m_crclabels, m_labels, loss>>

\* sample = build_words(25, 10), once main is over
PredictSample ==
    /\ p_pc = "idle"
    /\ m_pc \in {"returned", "error"}
    /\ LET r == build_words_drawn(batch_size, m_word_dim, np_rng) IN
          /\ p_sample' = r
          /\ np_rng' = IF r.fault = "none" THEN np_rng + batch_size ELSE np_rng
          /\ p_pc' = IF r.fault = "none" THEN "construct" ELSE "error"
    /\ UNCHANGED <<main_locals, torch_rng, file, p_model, p_result, not_main_vars>>

\* model = TxtClassifyModel(25)
PredictConstruct ==
    /\ p_pc = "construct"
    /\ p_model' = TxtClassifyModel(batch_size, torch_rng)
    /\ torch_rng' = torch_rng + 1
    /\ p_pc' = "load"
    /\ UNCHANGED <<main_locals, np_rng, file, p_sample, p_result, not_main_vars>>

\* model.load_state_dict(torch.load(model_path))
PredictLoad ==
    /\ p_pc = "load"
    /\ IF file = Absent
       THEN p_pc' = "error" /\ p_model' = p_model
       ELSE LET r == load_state_dict(p_model, torch_load(file)) IN
            /\ p_model' = r.model
            /\ p_pc' = IF r.fault = "none" THEN "eval" ELSE "error"
    /\ UNCHANGED <<main_locals, np_rng, torch_rng, file, p_sample, p_result,
                   not_main_vars>>

\* model.eval()
PredictEval_skipped ==
    /\ p_pc = "eval"
    /\ p_pc' = "forward"
    /\ UNCHANGED <<main_locals, np_rng, torch_rng, file, p_model, p_sample, p_result,
                   not_main_vars>>
PredictEval ==
    /\ p_pc = "eval"
    /\ p_model' = [p_model EXCEPT !.training = FALSE]
    /\ p_pc' = "forward"
    /\ UNCHANGED <<main_locals, np_rng, torch_rng, file, p_sample, p_result,
                   not_main_vars>>

\* result = model.forward(torch.FloatTensor(crclabels)) under torch.no_grad()
PredictForward ==
    /\ p_pc = "forward"
    /\ LET call == model_call(p_model, p_sample.crclabels, FALSE, <<>>, torch_rng) IN
          /\ p_model' = call.model
          /\ torch_rng' = torch_rng + call.draws
          /\ IF call.fault # "none"
             THEN p_pc' = "error" /\ p_result' = p_result
             ELSE p_pc' = "softmax" /\ p_result' = call.value
    /\ UNCHANGED <<main_locals, np_rng, file, p_sample, not_main_vars>>

\* result = nn.Softmax(dim=1)(result), then the loop of prints
PredictPrint ==
    /\ p_pc = "softmax"
    /\ p_result' = [op |-> "softmax", of |-> p_result]
    /\ p_pc' = "done"
    /\ UNCHANGED <<main_locals, np_rng, torch_rng, file, p_model, p_sample,
                   not_main_vars>>

MainNext ==
    \/ MainConstruct \/ MainBuildWords \/ MainEpochHead \/ MainEpochsDone
    \/ MainForward \/ MainBatchesDone \/ MainBackward \/ MainOptimStep
    \/ MainZeroGrad \/ MainAppendLoss \/ MainEvaluate \/ MainSave \/ MainPlot
    \/ PredictSample \/ PredictConstruct \/ PredictLoad \/ PredictEval
    \/ PredictForward \/ PredictPrint

SpecMain == MainInit /\ [][MainNext]_vars

\* ----------------------------------------------------- main, predict: claims
\* The b-th (from 0) of the contiguous blocks of batch_size entries of a list
BatchOf(list, b) == [i \in 1..batch_size |-> list[b * batch_size + i]]

\* The entries of a list as a set
Elems(list) == { list[i] : i \in 1..Len(list) }

InGradientStep == m_pc \in {"backward", "step", "zero_grad", "append"}

\* C6: in every epoch the b-th forward/backward/step/zero_grad uses exactly
\* the b-th contiguous block of batch_size training samples, features and
\* labels at the same indices; the optimizer has stepped once per batch, with
\* the gradient of that batch's loss alone, and the gradient is cleared after
\* the step; an epoch ends after train_sample // batch_size such steps; the
\* blocks are pairwise disjoint and the trailing samples are in none.
C6_EpochPartition ==
    /\ InGradientStep =>
          /\ batch_index < NumBatches
          /\ Len(m_crclabels) = batch_size /\ Len(m_labels) = batch_size
          /\ m_crclabels = BatchOf(train_crclabels, batch_index)
          /\ m_labels = BatchOf(train_labels, batch_index)
          /\ \A i \in 1..batch_size : m_crclabels[i][1].word = m_labels[i].word
          /\ loss.input.x = m_crclabels /\ loss.target = m_labels
    /\ \A k \in 1..Len(watch_loss) :
          /\ watch_loss[k].input.x = BatchOf(train_crclabels, k - 1)
          /\ watch_loss[k].target = BatchOf(train_labels, k - 1)
          /\ \A j \in 1..Len(watch_loss) :
                j # k => Elems(watch_loss[k].input.x) \cap Elems(watch_loss[j].input.x) = {}
          /\ \A i \in (NumBatches * batch_size + 1)..Len(train_crclabels) :
                /\ train_crclabels[i] \notin Elems(watch_loss[k].input.x)
                /\ train_labels[i] \notin Elems(watch_loss[k].target)
    /\ m_pc \in {"batch", "backward", "step", "zero_grad", "append"} =>
          Len(watch_loss) = batch_index
    /\ m_pc = "evaluate" => Len(watch_loss) = NumBatches /\ batch_index = NumBatches
    /\ m_pc \in {"batch", "backward", "step"} =>
          optim.t = epoch * NumBatches + batch_index
    /\ m_pc \in {"zero_grad", "append"} =>
          optim.t = epoch * NumBatches + batch_index + 1
    /\ m_pc = "evaluate" => optim.t = (epoch + 1) * NumBatches
    /\ m_pc \in {"step", "zero_grad"} => grad = [op |-> "grad", of |-> loss]
    /\ m_pc = "zero_grad" =>
          /\ model.weights.op = "adam"
          /\ model.weights.state = optim
          /\ optim.moments.grad = [op |-> "grad", of |-> loss]
    /\ m_pc \in {"epoch", "batch", "backward", "append", "evaluate", "save"} =>
          grad = NoTensor

C6_Witness ==
    /\ m_pc = "evaluate"
    /\ epoch = 1
    /\ NumBatches = 2
    /\ train_sample % batch_size # 0
    /\ Len(watch_loss) = 2
    /\ optim.t = 4

\* number of optimizer steps that produced these weights
RECURSIVE AdamSteps(_)
AdamSteps(w) == IF w.op = "adam" THEN 1 + AdamSteps(w.prev) ELSE 0

MainRunning == m_pc \notin {"idle", "construct"}

\* C7: the log has one [accuracy, mean loss] entry per completed epoch, the
\* k-th computed from the weights after all k * (train_sample // batch_size)
\* gradient steps and from that epoch's losses; the weights file is absent
\* until all epoch_num epochs are logged, is written by the save that follows
\* them, and is absent whenever main has faulted.
C7_LogAndSaveOrder ==
    MainRunning =>
        /\ Len(log) = epoch
        /\ epoch <= epoch_num
        /\ \A k \in 1..Len(log) :
              /\ Len(log[k]) = 2
              /\ log[k][1].op = "accuracy"
              /\ AdamSteps(log[k][1].pred.weights) = k * NumBatches
              /\ log[k][2].op = "mean"
              /\ Len(log[k][2].of) = NumBatches
        /\ m_pc \in {"batch", "backward", "step", "zero_grad", "append", "evaluate"} =>
              epoch < epoch_num
        /\ (file # Absent) = (m_pc \in {"plot", "returned"})
        /\ file # Absent =>
              /\ Len(log) = epoch_num
              /\ AdamSteps(model.weights) = epoch_num * NumBatches
              /\ torch_load(file) = state_dict(model)
        /\ m_pc = "save" => Len(log) = epoch_num
        /\ m_pc = "error" => file = Absent

C7_Witness ==
    /\ m_pc = "returned"
    /\ epoch_num >= 2
    /\ Len(log) = epoch_num
    /\ NumBatches >= 2
    /\ file # Absent

\* Inference in eval mode on the model of main for the batch given to predict
SavedModelInference ==
    model_call([model EXCEPT !.training = FALSE], p_sample.crclabels, FALSE, <<>>, 0).value

\* C9: the model predict builds from the file has the parameters and buffers
\* of the model main saved, and its inference on the batch it is given is the
\* inference of the saved model on that batch; predict does not fault after
\* a main that returned.
C9_SaveLoadRoundTrip ==
    /\ m_pc = "returned" => p_pc # "error"
    /\ p_pc \in {"eval", "forward", "softmax", "done"} =>
          state_dict(p_model) = state_dict(model)
    /\ p_pc = "softmax" => p_result = SavedModelInference
    /\ p_pc = "done" => p_result = [op |-> "softmax", of |-> SavedModelInference]

C9_Witness ==
    /\ p_pc = "done"
    /\ optim.t >= 2
    /\ model.running # [op |-> "init_stats"]
    /\ model.weights # [op |-> "init", draw |-> 0]
    /\ p_result.of.weights = model.weights
    /\ p_result.of.x = p_sample.crclabels

\* C10: the model is in train mode at every gradient step (and every logged
\* loss was computed in train mode), it is back in train mode when an epoch's
\* batches start, it is in evaluate mode after every evaluate, at the save
\* and after it, and every inference of evaluate and predict ran in evaluate
\* mode.
C10_ModeFlag ==
    /\ InGradientStep => model.training /\ loss.input.op = "train_scores"
    /\ \A k \in 1..Len(watch_loss) : watch_loss[k].input.op = "train_scores"
    /\ m_pc \in {"batch", "evaluate"} => model.training
    /\ (m_pc = "epoch" /\ epoch >= 1) => ~model.training
    /\ \A k \in 1..Len(log) : log[k][1].pred.op = "eval_scores"
    /\ m_pc \in {"save", "plot", "returned"} => ~model.training
    /\ p_pc \in {"forward", "softmax", "done"} => ~p_model.training
    /\ p_pc = "softmax" => p_result.op = "eval_scores"
    /\ p_pc = "done" => p_result.of.op = "eval_scores"

C10_Witness ==
    /\ p_pc = "done"
    /\ m_pc = "returned"
    /\ Len(log) >= 2
    /\ optim.t >= 2
    /\ p_result.of.op = "eval_scores"

\* ---------------------------------------------------------- generator claims
Samples == 1..Len(words)

\* C1: every generated word's label is the alphabetic rank of its first
\* character, lies in 0..25, and two samples with the same word carry the
\* same label.
C1_LabelIsFirstLetterRank ==
    /\ Len(labels) = Len(words)
    /\ \A i \in Samples :
          /\ labels[i] = words[i][1] - OrdA
          /\ labels[i] \in 0..(NumLetters - 1)
    /\ \A i, j \in Samples : words[i] = words[j] => labels[i] = labels[j]

C1_Witness ==
    /\ g_pc = "done"
    /\ \E i, j \in Samples :
          /\ i # j
          /\ words[i] = words[j]
          /\ Len(words[i]) >= 2
          /\ words[i][1] # words[i][Len(words[i])]
          /\ labels[i] = MaxLetter

\* C2: every feature is a one-element vector holding an integer in 0..255,
\* it is the CRC of the word it is stored beside, and two samples with the
\* same word carry the same feature.
C2_FeatureInByteRange ==
    /\ Len(crclabels) = Len(words)
    /\ \A i \in Samples :
          /\ Len(crclabels[i]) = 1
          /\ crclabels[i][1] \in 0..255
          /\ crclabels[i] = <<checksum(encode(words[i]))>>
    /\ \A i, j \in Samples : words[i] = words[j] => crclabels[i] = crclabels[j]

C2_Witness ==
    /\ g_pc = "done"
    /\ \E i, j \in Samples :
          /\ i # j
          /\ words[i] = words[j]
          /\ Len(words[i]) >= 2
          /\ crclabels[i][1] >= 128

\* C3 as stated: for any word_dim and any n, build_words has no error outcome
\* and returns three lists of n entries whose words have 1 <= length < word_dim.
C3_Original_NoErrorAnyWordDim ==
    /\ g_pc # "error"
    /\ g_pc = "done" =>
          /\ Len(words) = total_words_num
          /\ Len(crclabels) = total_words_num
          /\ Len(labels) = total_words_num
          /\ \A i \in Samples : Len(words[i]) >= 1 /\ Len(words[i]) < word_dim

\* C3 amended: with word_dim >= 2 (or n = 0) build_words has no error outcome
\* and returns three index-aligned lists of exactly n entries whose words have
\* 1 <= length < word_dim; with word_dim <= 1 and n >= 1 it raises in its first
\* iteration and returns nothing.
C3_NoErrorWhenWordDimAtLeast2 ==
    /\ (word_dim >= 2 \/ total_words_num = 0) => g_pc # "error"
    /\ (word_dim <= 1 /\ total_words_num >= 1) => g_pc # "done" /\ words = <<>>
    /\ \A i \in Samples : Len(words[i]) >= 1 /\ Len(words[i]) < word_dim
    /\ Len(words) = g_i /\ Len(crclabels) = g_i /\ Len(labels) = g_i
    /\ g_pc = "done" => g_i = total_words_num
    /\ g_pc = "done" =>
          build_words_fold(NoSample, words) =
              [fault |-> "none", words |-> words, crclabels |-> crclabels,
               labels |-> labels]

C3_Witness ==
    /\ g_pc = "done"
    /\ total_words_num >= 2
    /\ word_dim >= 3
    /\ Len(words) = total_words_num
    /\ \E i \in Samples : Len(words[i]) = word_dim - 1
    /\ \E i \in Samples : Len(words[i]) = 1

\* Two samples with distinct words, different labels and the same feature
Collide(i, j) ==
    /\ words[i] # words[j]
    /\ labels[i] # labels[j]
    /\ crclabels[i] = crclabels[j]

\* C4: build_words neither rejects, deduplicates nor fails on two distinct
\* words with different labels and the same feature: every iteration adds its
\* sample, so both samples of a colliding pair are in the output, each with
\* the label of its own first letter.
C4_CollisionsKept ==
    /\ (\E i, j \in Samples : Collide(i, j)) => g_pc # "error"
    /\ g_pc # "error" => Len(words) = g_i /\ Len(crclabels) = g_i /\ Len(labels) = g_i
    /\ g_pc = "done" => Len(words) = total_words_num
    /\ \A i, j \in Samples : Collide(i, j) =>
          /\ labels[i] = words[i][1] - OrdA
          /\ labels[j] = words[j][1] - OrdA

C4_Witness ==
    /\ g_pc = "done"
    /\ \E i, j \in Samples : Collide(i, j)

====
